---- MODULE Spec2Model ----
(***************************************************************************)
(* TapTapBug: the BugTap game controller (src/src/bugTap/BugTap.ts).       *)
(* The controller owns three independently timed activities (the spawn     *)
(* loop, the time loop and the tap handler) which run as non-overlapping   *)
(* callbacks against one shared game state.  Every handler of the class is *)
(* one action; the engine (Game, the store, getRandomNumber) and the       *)
(* entity classes (Bug, Food, Point, the managers) are not part of the     *)
(* sources at hand and are modelled from their documented interface.       *)
(***************************************************************************)
EXTENDS Integers, Sequences, FiniteSets, TLC

VARIABLES
    controller,     \* which of the repository's two BugTap classes runs
    runMode,        \* Game's tri-state run mode
    gameObjects,    \* Game's ordered collection of active game objects
    _food,          \* BugTap._food
    foodReceived,   \* the lists BugManager.receiveFood has been called with
    _time,          \* BugTap._time (elapsed seconds)
    _score,         \* BugTap._score
    store,          \* the persistent key -> string store
    cues,           \* number of times _soundPoint.play() has been called
    scoreText,      \* innerHTML of the "score" element
    timeText,       \* innerHTML of the "time" element
    buttonSrc,      \* src attribute of the pause-resume button
    sections,       \* which of the welcome/game sections carry class "hidden"
    spawnTimers,    \* number of pending setTimeout(spawnBugRandomly, d)
    tickTimers,     \* number of pending setTimeout(startTime, 1000)
    last            \* history: the callback that ran last and what it met

vars == <<controller, runMode, gameObjects, _food, foodReceived, _time,
          _score, store, cues, scoreText, timeText, buttonSrc, sections,
          spawnTimers, tickTimers, last>>

----------------------------------------------------------------------------
(* Program constants *)

AMOUNT_OF_FOOD == 10
MIN_BUGS_TO_SPAWN == 1
MAX_BUGS_TO_SPAWN == 3
MIN_SPAWN_INTERVAL == 800
MAX_SPAWN_INTERVAL == 1500
TICK_INTERVAL == 1000

(* Bounds of the model *)

MaxBugs == 2        \* bugs ever spawned
MaxTime == 2        \* elapsed seconds
MaxLoops == 2       \* invocations of the start handler
MaxClock == 70      \* elapsed seconds of a long session (ClockSpec)

(* Sampled inputs.  Bugs are BugSize wide and high; a spawned bug is one of *)
(* BugKinds (corner x, corner y, point value), so that two boxes coincide   *)
(* or share only an edge.  The taps are a point in the first kind's box     *)
(* only, a point in both kinds' boxes and a point in no box.  A wave is any *)
(* sequence of kinds, in the order the calls of spawn return them.          *)
BugSize == 1
BugKinds == {<<0, 0, 1>>, <<1, 0, 3>>}
Taps == {<<0, 0>>, <<1, 0>>, <<1, 2>>}
IntervalSamples == {MIN_SPAWN_INTERVAL, MAX_SPAWN_INTERVAL}

----------------------------------------------------------------------------
(* The engine: Game's run mode, the store and the random source. *)

start(rm) == IF rm = "NotStarted" THEN "Running" ELSE rm

pause(rm) == IF rm = "Running" THEN "Paused" ELSE rm

resume(rm) == IF rm = "Paused" THEN "Running" ELSE rm

isPaused(rm) == rm = "Paused"

isRunning(rm) == rm = "Running"

getRandomNumber(min, max) == min .. max

addToStore(s, key, value) ==
    [k \in DOMAIN s \cup {key} |-> IF k = key THEN value ELSE s[k]]

clearStore == [k \in {} |-> ""]

Digit(d) ==
    CASE d = 0 -> "0" [] d = 1 -> "1" [] d = 2 -> "2" [] d = 3 -> "3"
      [] d = 4 -> "4" [] d = 5 -> "5" [] d = 6 -> "6" [] d = 7 -> "7"
      [] d = 8 -> "8" [] d = 9 -> "9"

RECURSIVE toString(_)
toString(n) ==
    IF n < 10 THEN Digit(n) ELSE toString(n \div 10) \o Digit(n % 10)

----------------------------------------------------------------------------
(* Game objects.  An object is a record tagged with its class.  A bug    *)
(* carries the corner of its bounding box, its point value and its alive   *)
(* flag; `scored` is a history field counting how often the scoring block  *)
(* ran for it.  A score marker carries the points and position it was      *)
(* built with.  The cursor and the food carry nothing the controller reads.*)

Cursor == [kind |-> "Cursor"]

Food == [kind |-> "Food"]

Bug(x, y, points) ==
    [kind |-> "Bug", x |-> x, y |-> y, points |-> points, alive |-> TRUE,
     scored |-> 0]

Point(points, x, y) == [kind |-> "Point", x |-> x, y |-> y, points |-> points]

isBug(o) == o.kind = "Bug"

isAlive(o) == o.alive

getPoints(o) == o.points

setDead(o) == [o EXCEPT !.alive = FALSE]

isOverlappingPoint(o, px, py) ==
    /\ o.x <= px /\ px <= o.x + BugSize
    /\ o.y <= py /\ py <= o.y + BugSize

addGameObject(objs, o) == Append(objs, o)

addGameObjects(objs, os) == objs \o os

generate(count) == [i \in 1 .. count |-> Food]

receiveFood(received, food) == Append(received, food)

----------------------------------------------------------------------------
(* The tap handler's scan.  A scan state is the part of the program state  *)
(* the handler writes while it walks the collection.                       *)

(* Variant: the alive test of lines 137-139 is left out. *)
MatchesDead(o, px, py) ==
    /\ isBug(o)
    /\ isOverlappingPoint(o, px, py)

(* Variant: the bounding-box test of lines 128-135 is left out. *)
MatchesAnywhere(o, px, py) ==
    /\ isBug(o)
    /\ isAlive(o)

Matches(o, px, py) ==
    /\ isBug(o)
    /\ isOverlappingPoint(o, px, py)
    /\ isAlive(o)

(* Variant: the score is assigned the bug's points instead of raised. *)
ScoreBugAssign(st, i) ==
    LET gameObject == st.objs[i]
        points == getPoints(gameObject)
        score == points
        point == Point(points, gameObject.x, gameObject.y)
    IN  [objs |-> [addGameObject(st.objs, point) EXCEPT
                      ![i] = [setDead(gameObject) EXCEPT
                                 !.scored = gameObject.scored + 1]],
         score |-> score,
         cues |-> st.cues + 1,
         scoreText |-> "Score: " \o toString(score),
         store |-> addToStore(st.store, "score", toString(score))]

(* Variant: no score marker is added to the collection. *)
ScoreBugUnmarked(st, i) ==
    LET gameObject == st.objs[i]
        points == getPoints(gameObject)
        score == st.score + points
    IN  [objs |-> [st.objs EXCEPT
                      ![i] = [setDead(gameObject) EXCEPT
                                 !.scored = gameObject.scored + 1]],
         score |-> score,
         cues |-> st.cues + 1,
         scoreText |-> "Score: " \o toString(score),
         store |-> addToStore(st.store, "score", toString(score))]

(* Variant: the scored bug is not marked dead. *)
ScoreBugKeptAlive(st, i) ==
    LET gameObject == st.objs[i]
        points == getPoints(gameObject)
        score == st.score + points
        point == Point(points, gameObject.x, gameObject.y)
    IN  [objs |-> [addGameObject(st.objs, point) EXCEPT
                      ![i] = [gameObject EXCEPT
                                 !.scored = gameObject.scored + 1]],
         score |-> score,
         cues |-> st.cues + 1,
         scoreText |-> "Score: " \o toString(score),
         store |-> addToStore(st.store, "score", toString(score))]

ScoreBug(st, i) ==
    LET gameObject == st.objs[i]
        points == getPoints(gameObject)
        score == st.score + points
        point == Point(points, gameObject.x, gameObject.y)
    IN  [objs |-> [addGameObject(st.objs, point) EXCEPT
                      ![i] = [setDead(gameObject) EXCEPT
                                 !.scored = gameObject.scored + 1]],
         score |-> score,
         cues |-> st.cues + 1,
         scoreText |-> "Score: " \o toString(score),
         store |-> addToStore(st.store, "score", toString(score))]

(* The for-of loop of lines 123-160, from position i on: the objects for  *)
(* which one of the three `continue` tests applies are passed over, the   *)
(* first other one is scored, and the loop goes on behind it over the      *)
(* collection as it then is, the appended score marker included.           *)
NextMatch(st, i, px, py) ==
    LET rest == {j \in i .. Len(st.objs) : Matches(st.objs[j], px, py)}
    IN  IF rest = {} THEN 0
        ELSE CHOOSE j \in rest : \A k \in rest : j <= k

(* Variant: the scan stops at the first bug it scores. *)
TapScanFirst(st, i, px, py) ==
    LET j == NextMatch(st, i, px, py)
    IN  IF j = 0 THEN st ELSE ScoreBug(st, j)

RECURSIVE TapScan(_, _, _, _)
TapScan(st, i, px, py) ==
    LET j == NextMatch(st, i, px, py)
    IN  IF j = 0 THEN st ELSE TapScan(ScoreBug(st, j), j + 1, px, py)

(* Variant: the running test of lines 119-121 is left out. *)
TapResultUnguarded(rm, st, px, py) == TapScan(st, 1, px, py)

TapResult(rm, st, px, py) ==
    IF ~isRunning(rm) THEN st ELSE TapScan(st, 1, px, py)

----------------------------------------------------------------------------
(* The spawn cycle and the time tick, as run by a timer and by start. *)

numBugsToSpawn == getRandomNumber(MIN_BUGS_TO_SPAWN, MAX_BUGS_TO_SPAWN)

spawnInterval ==
    {d \in IntervalSamples :
        d \in getRandomNumber(MIN_SPAWN_INTERVAL, MAX_SPAWN_INTERVAL)}

spawn(k) == Bug(k[1], k[2], k[3])

Waves(n) == [1 .. n -> {spawn(k) : k \in BugKinds}]

RECURSIVE _spawnBug(_, _, _)
_spawnBug(objs, wave, k) ==
    IF k > Len(wave) THEN objs
    ELSE _spawnBug(addGameObject(objs, wave[k]), wave, k + 1)

(* Variant: the running test of the spawn cycle is left out. *)
MaySpawnWithFood(rm, food) == Len(food) > 0

MaySpawn(rm, food) == isRunning(rm) /\ Len(food) > 0

(* Variant: the cycle spawns nothing. *)
SpawnCycleSkipped(rm, food, objs, wave) == objs

SpawnCycle(rm, food, objs, wave) ==
    IF MaySpawn(rm, food) THEN _spawnBug(objs, wave, 1) ELSE objs

(* Variant: the seconds are not padded. *)
formatSecondsUnpadded(seconds) ==
    toString(seconds \div 60) \o ":" \o toString(seconds % 60)

formatSeconds(seconds) ==
    LET minutes == seconds \div 60
        remainingSeconds == seconds % 60
        paddedSeconds == IF remainingSeconds < 10
                         THEN "0" \o toString(remainingSeconds)
                         ELSE toString(remainingSeconds)
    IN  toString(minutes) \o ":" \o paddedSeconds

(* Variant: the tick does not look at the pause state. *)
MayTickAlways(rm) == TRUE

(* Variant: the pause test of the tick is inverted. *)
MayTickPaused(rm) == isPaused(rm)

MayTick(rm) == ~isPaused(rm)

(* Variant: a tick counts two seconds. *)
TimeCycleByTwo(rm, clock) ==
    IF MayTick(rm)
    THEN [time |-> clock.time + 2,
          text |-> "Time: " \o formatSeconds(clock.time + 2),
          store |-> addToStore(clock.store, "time", toString(clock.time + 2))]
    ELSE clock

(* Variant: the tick does not persist the time. *)
TimeCycleUnsaved(rm, clock) ==
    IF MayTick(rm)
    THEN [time |-> clock.time + 1,
          text |-> "Time: " \o formatSeconds(clock.time + 1),
          store |-> clock.store]
    ELSE clock

TimeCycle(rm, clock) ==
    IF MayTick(rm)
    THEN [time |-> clock.time + 1,
          text |-> "Time: " \o formatSeconds(clock.time + 1),
          store |-> addToStore(clock.store, "time", toString(clock.time + 1))]
    ELSE clock

----------------------------------------------------------------------------
(* Timers and history helpers *)

(* The repository holds two versions of the controller class. *)
BugTapTs == "src/bugTap/BugTap.ts"

BugTapPart000 == "src/unnamed/part_000"

(* A callback of controller c runs: it belongs to the object constructed. *)
Runs(c) == controller = c /\ controller' = c

(* Variant: the call arms nothing. *)
setTimeoutDropped(timers) == timers

setTimeout(timers) == timers + 1

fire(timers) == timers - 1

NumBugs(objs) == Cardinality({i \in 1 .. Len(objs) : isBug(objs[i])})

BugsUnder(objs, px, py) ==
    {i \in 1 .. Len(objs) :
        isBug(objs[i]) /\ isOverlappingPoint(objs[i], px, py)}

(* An event: the handler that ran, for a tap the point and the number of  *)
(* alive and of dead bugs whose box held it when the handler began, and   *)
(* for a spawn cycle the delay it handed to setTimeout.                   *)
Event(op, tap, aliveHits, deadHits, delay) ==
    [op |-> op, tap |-> tap, aliveHits |-> aliveHits, deadHits |-> deadHits,
     delay |-> delay]

NoTap == <<-1, -1>>

----------------------------------------------------------------------------
(* The state after construction *)

Init ==
    /\ controller = BugTapTs
    /\ runMode = "NotStarted"
    /\ gameObjects = <<Cursor>>
    /\ _food = <<>>
    /\ foodReceived = <<>>
    /\ _time = 0
    /\ _score = 0
    /\ store = clearStore
    /\ cues = 0
    /\ scoreText = ""
    /\ timeText = ""
    /\ buttonSrc = ""
    /\ sections = [welcome |-> "shown", game |-> "hidden"]
    /\ spawnTimers = 0
    /\ tickTimers = 0
    /\ last = Event("new", NoTap, 0, 0, 0)

(* The handlers *)

_startButtonOnClick ==
    /\ Runs(BugTapTs)
    /\ spawnTimers < MaxLoops
    /\ LET rm == start(runMode)
           food == generate(AMOUNT_OF_FOOD)
           objs == addGameObjects(gameObjects, food)
           clock == TimeCycle(rm, [time |-> _time, text |-> timeText,
                                   store |-> store])
           room == MaxBugs - NumBugs(gameObjects)
       IN  /\ clock.time <= MaxTime
           /\ runMode' = rm
           /\ _food' = food
           /\ foodReceived' = receiveFood(foodReceived, food)
           /\ IF MaySpawn(rm, food)
              THEN \E n \in numBugsToSpawn :
                      /\ n <= room
                      /\ \E wave \in Waves(n) :
                            gameObjects' = SpawnCycle(rm, food, objs, wave)
              ELSE gameObjects' = SpawnCycle(rm, food, objs, <<>>)
           /\ spawnTimers' = setTimeout(spawnTimers)
           /\ _time' = clock.time
           /\ timeText' = clock.text
           /\ store' = clock.store
           /\ tickTimers' = setTimeout(tickTimers)
           /\ sections' = [welcome |-> "hidden", game |-> "shown"]
           /\ \E d \in spawnInterval : last' = Event("start", NoTap, 0, 0, d)
           /\ UNCHANGED <<_score, cues, scoreText, buttonSrc>>

(* mutant: the toggle with its branches swapped *)
ToggleSwapped(rm) == IF isPaused(rm) THEN pause(rm) ELSE resume(rm)

Toggle(rm) == IF isPaused(rm) THEN resume(rm) ELSE pause(rm)

_pauseButtonOnClick ==
    LET rm == Toggle(runMode)
    IN  /\ Runs(BugTapTs)
        /\ runMode' = rm
        /\ buttonSrc' = IF isPaused(rm) THEN "assets/graphics/play.png"
                        ELSE IF isRunning(rm) THEN "assets/graphics/pause.png"
                        ELSE buttonSrc
        /\ last' = Event("toggle", NoTap, 0, 0, 0)
        /\ UNCHANGED <<gameObjects, _food, foodReceived, _time, _score, store,
                       cues, scoreText, timeText, sections, spawnTimers,
                       tickTimers>>

KeyCodes == {"Space", "Enter"}

keydown ==
    \E code \in KeyCodes :
        IF code = "Space" THEN _pauseButtonOnClick ELSE UNCHANGED vars

_canvasOnMouseClick ==
    /\ Runs(BugTapTs)
    /\ \E tap \in Taps :
        LET px == tap[1]
            py == tap[2]
            st == TapResult(runMode,
                            [objs |-> gameObjects, score |-> _score,
                             cues |-> cues, scoreText |-> scoreText,
                             store |-> store], px, py)
            under == BugsUnder(gameObjects, px, py)
            aliveHits == Cardinality({i \in under : isAlive(gameObjects[i])})
        IN  /\ gameObjects' = st.objs
            /\ _score' = st.score
            /\ cues' = st.cues
            /\ scoreText' = st.scoreText
            /\ store' = st.store
            /\ last' = Event("tap", tap, aliveHits,
                             Cardinality(under) - aliveHits, 0)
            /\ UNCHANGED <<runMode, _food, foodReceived, _time, timeText,
                           buttonSrc, sections, spawnTimers, tickTimers>>

spawnBugRandomly ==
    /\ Runs(BugTapTs)
    /\ spawnTimers > 0
    /\ LET room == MaxBugs - NumBugs(gameObjects)
       IN  IF MaySpawn(runMode, _food)
           THEN \E n \in numBugsToSpawn :
                   /\ n <= room
                   /\ \E wave \in Waves(n) :
                         gameObjects' =
                             SpawnCycle(runMode, _food, gameObjects, wave)
           ELSE gameObjects' = SpawnCycle(runMode, _food, gameObjects, <<>>)
    /\ spawnTimers' = setTimeout(fire(spawnTimers))
    /\ \E d \in spawnInterval : last' = Event("spawn", NoTap, 0, 0, d)
    /\ UNCHANGED <<runMode, _food, foodReceived, _time, _score, store, cues,
                   scoreText, timeText, buttonSrc, sections, tickTimers>>

startTimeUpTo(limit) ==
    /\ Runs(BugTapTs)
    /\ tickTimers > 0
    /\ LET clock == TimeCycle(runMode, [time |-> _time, text |-> timeText,
                                         store |-> store])
        IN  /\ clock.time <= limit
            /\ _time' = clock.time
            /\ timeText' = clock.text
            /\ store' = clock.store
            /\ tickTimers' = setTimeout(fire(tickTimers))
            /\ last' = Event("tick", NoTap, 0, 0, TICK_INTERVAL)
            /\ UNCHANGED <<runMode, gameObjects, _food, foodReceived, _score,
                           cues, scoreText, buttonSrc, sections, spawnTimers>>

startTime == startTimeUpTo(MaxTime)

Next ==
    \/ _startButtonOnClick
    \/ _pauseButtonOnClick
    \/ keydown
    \/ _canvasOnMouseClick
    \/ spawnBugRandomly
    \/ startTime

Spec == Init /\ [][Next]_vars

(* Timers that are due do fire: the host's event loop runs every pending   *)
(* timeout callback.                                                       *)
LiveSpec == Spec /\ WF_vars(startTime) /\ WF_vars(spawnBugRandomly)

(* A long session: one start, then pause toggles and ticks of the time    *)
(* loop up to MaxClock seconds.                                            *)
ClockStart == runMode = "NotStarted" /\ _startButtonOnClick

ClockTick == startTimeUpTo(MaxClock)

ClockNext ==
    \/ ClockStart
    \/ _pauseButtonOnClick
    \/ ClockTick

ClockSpec == Init /\ [][ClockNext]_vars

----------------------------------------------------------------------------
(* The earlier controller (src/unnamed/part_000).  Its constructor puts    *)
(* the cursor and the food into the collection and launches the spawn      *)
(* loop; its spawn cycle looks at the pause state only; it has a keydown   *)
(* listener and no start, pause-button or tap handler, no time loop and no *)
(* score.  Nothing in it calls Game.start: the page that constructs the    *)
(* controller does.                                                        *)

OLD_AMOUNT_OF_FOOD == 8

initGameObjects ==
    addGameObjects(<<>>, <<Cursor>> \o generate(OLD_AMOUNT_OF_FOOD))

MaySpawnOld(rm) == ~isPaused(rm)

SpawnCycleOld(rm, objs, wave) ==
    IF MaySpawnOld(rm) THEN _spawnBug(objs, wave, 1) ELSE objs

togglePause(rm) == IF isPaused(rm) THEN resume(rm) ELSE pause(rm)

OldInit ==
    /\ controller = BugTapPart000
    /\ runMode = "NotStarted"
    /\ \E n \in numBugsToSpawn :
          /\ n <= MaxBugs
          /\ \E wave \in Waves(n) :
                gameObjects = SpawnCycleOld("NotStarted", initGameObjects,
                                            wave)
    /\ _food = <<>>
    /\ foodReceived = <<>>
    /\ _time = 0
    /\ _score = 0
    /\ store = clearStore
    /\ cues = 0
    /\ scoreText = ""
    /\ timeText = ""
    /\ buttonSrc = ""
    /\ sections = [welcome |-> "shown", game |-> "hidden"]
    /\ spawnTimers = setTimeout(0)
    /\ tickTimers = 0
    /\ \E d \in spawnInterval : last = Event("new", NoTap, 0, 0, d)

OldHostStart ==
    /\ Runs(BugTapPart000)
    /\ runMode' = start(runMode)
    /\ last' = Event("hostStart", NoTap, 0, 0, 0)
    /\ UNCHANGED <<gameObjects, _food, foodReceived, _time, _score, store,
                   cues, scoreText, timeText, buttonSrc, sections,
                   spawnTimers, tickTimers>>

OldKeydown ==
    /\ Runs(BugTapPart000)
    /\ \E code \in KeyCodes :
          IF code = "Space"
          THEN /\ runMode' = togglePause(runMode)
               /\ last' = Event("toggle", NoTap, 0, 0, 0)
               /\ UNCHANGED <<gameObjects, _food, foodReceived, _time,
                              _score, store, cues, scoreText, timeText,
                              buttonSrc, sections, spawnTimers, tickTimers>>
          ELSE UNCHANGED vars

OldSpawnBugRandomly ==
    /\ Runs(BugTapPart000)
    /\ spawnTimers > 0
    /\ LET room == MaxBugs - NumBugs(gameObjects)
       IN  IF MaySpawnOld(runMode)
           THEN \E n \in numBugsToSpawn :
                   /\ n <= room
                   /\ \E wave \in Waves(n) :
                         gameObjects' = SpawnCycleOld(runMode, gameObjects,
                                                      wave)
           ELSE gameObjects' = SpawnCycleOld(runMode, gameObjects, <<>>)
    /\ spawnTimers' = setTimeout(fire(spawnTimers))
    /\ \E d \in spawnInterval : last' = Event("spawn", NoTap, 0, 0, d)
    /\ UNCHANGED <<runMode, _food, foodReceived, _time, _score, store, cues,
                   scoreText, timeText, buttonSrc, sections, tickTimers>>

OldNext ==
    \/ OldHostStart
    \/ OldKeydown
    \/ OldSpawnBugRandomly

(* Either controller of the repository. *)
RepoInit == Init \/ OldInit

RepoNext == Next \/ OldNext

RepoSpec == RepoInit /\ [][RepoNext]_vars

----------------------------------------------------------------------------
(* Vocabulary of the properties *)

Indices(objs) == 1 .. Len(objs)

DeadBugs(objs) == {i \in Indices(objs) : isBug(objs[i]) /\ ~isAlive(objs[i])}

AliveBugs(objs) == {i \in Indices(objs) : isBug(objs[i]) /\ isAlive(objs[i])}

BugsAt(objs, tap, alive) ==
    {i \in BugsUnder(objs, tap[1], tap[2]) : isAlive(objs[i]) = alive}

RECURSIVE SumPoints(_, _)
SumPoints(objs, S) ==
    IF S = {} THEN 0
    ELSE LET i == CHOOSE j \in S : TRUE
         IN  objs[i].points + SumPoints(objs, S \ {i})

Started == runMode # "NotStarted"

PauseImage == "assets/graphics/pause.png"

(* What a tap may write besides the history. *)
tapFrame == <<_score, gameObjects, cues, store, scoreText>>

----------------------------------------------------------------------------
(* C1: at-most-once scoring.  The scoring block (cue, score increment,     *)
(* marker, store write, setDead) has run exactly once for every dead bug   *)
(* and never for an alive one, so no bug is ever scored twice, whatever    *)
(* taps, spawn cycles, ticks and pause toggles have happened.              *)
C1_AtMostOnceScoring ==
    \A i \in Indices(gameObjects) :
        isBug(gameObjects[i]) =>
            gameObjects[i].scored = IF isAlive(gameObjects[i]) THEN 0 ELSE 1

(* A tap while running whose point lies in dead bugs' boxes only. *)
C1_Witness ==
    /\ last.op = "tap"
    /\ isRunning(runMode)
    /\ last.deadHits > 0
    /\ last.aliveHits = 0

(* C2: score accounting.  In every state the score is the sum of the point *)
(* values of the dead bugs, and no step lowers the score.                  *)
C2_ScoreAccounting ==
    /\ [](_score = SumPoints(gameObjects, DeadBugs(gameObjects)))
    /\ [][_score' >= _score]_vars

(* Two bugs of different point value have been tapped dead. *)
C2_Witness ==
    /\ last.op = "tap"
    /\ \E i, j \in DeadBugs(gameObjects) :
          gameObjects[i].points # gameObjects[j].points
    /\ _score > 0

(* C3: pause freezes time and spawns.  A time tick or a spawn cycle that   *)
(* fires while the game is paused changes neither the elapsed seconds, the *)
(* time text, the store nor the active collection; it only re-arms its     *)
(* timer, so the number of pending timers stays what it was.               *)
C3_PauseFreezes ==
    [][(isPaused(runMode) /\ last'.op \in {"tick", "spawn"}) =>
          /\ _time' = _time
          /\ timeText' = timeText
          /\ store' = store
          /\ gameObjects' = gameObjects
          /\ spawnTimers' = spawnTimers
          /\ tickTimers' = tickTimers]_vars

(* A tick has fired while paused, with time left below the model's bound. *)
C3_Witness ==
    /\ isPaused(runMode)
    /\ last.op = "tick"
    /\ _time < MaxTime
    /\ "time" \in DOMAIN store

(* C4: resume restores progress.  A tick that fires while running raises   *)
(* the elapsed seconds by one and a spawn cycle that fires while running    *)
(* with food adds at least one bug; a pause toggle leaves the pending       *)
(* timers as they are; and once the game has been resumed, a tick and a     *)
(* spawn cycle do fire while running, unless the game is paused again or    *)
(* the model's bound on the time or on the bugs is reached first.           *)
C4_Resumed == isRunning(runMode) /\ last.op = "toggle"

C4_ResumeRestoresProgress ==
    /\ [][(isRunning(runMode) /\ last'.op = "tick") => _time' = _time + 1]_vars
    /\ [][(isRunning(runMode) /\ Len(_food) > 0 /\ last'.op = "spawn") =>
             NumBugs(gameObjects') >= NumBugs(gameObjects) + 1]_vars
    /\ [][last'.op = "toggle" =>
             /\ spawnTimers' = spawnTimers
             /\ tickTimers' = tickTimers
             /\ Started => spawnTimers >= 1 /\ tickTimers >= 1]_vars
    /\ C4_Resumed ~> \/ isRunning(runMode) /\ last.op = "tick"
                     \/ isPaused(runMode)
                     \/ _time = MaxTime
    /\ C4_Resumed ~> \/ isRunning(runMode) /\ last.op = "spawn"
                     \/ isPaused(runMode)
                     \/ NumBugs(gameObjects) = MaxBugs

(* A tick has fired while running after a resume: only a toggle that ends   *)
(* running, which is a resume, shows the pause image.                       *)
C4_Witness ==
    /\ isRunning(runMode)
    /\ buttonSrc = PauseImage
    /\ last.op = "tick"
    /\ _time >= 2

(* C5: no premature spawning.  While the game is not started or holds no   *)
(* food there are no bugs, and a step that adds a bug runs its spawn cycle *)
(* with the game running and the food collection non-empty.                *)
C5_NoPrematureSpawning ==
    /\ []((~Started \/ Len(_food) = 0) => NumBugs(gameObjects) = 0)
    /\ [][NumBugs(gameObjects') > NumBugs(gameObjects) =>
             isRunning(runMode') /\ Len(_food') > 0]_vars

(* A tap has been delivered before the game was started. *)
C5_Witness ==
    /\ ~Started
    /\ last.op = "tap"
    /\ buttonSrc = ""

(* C6: simultaneous hit.  A tap while running raises the score by the sum  *)
(* of the point values of all alive bugs whose box holds the point, and    *)
(* leaves every one of them dead.                                         *)
C6_SimultaneousHit ==
    [][(isRunning(runMode) /\ last'.op = "tap") =>
          LET hit == BugsAt(gameObjects, last'.tap, TRUE)
          IN  /\ _score' = _score + SumPoints(gameObjects, hit)
              /\ \A i \in hit : ~isAlive(gameObjects'[i])
              /\ cues' = cues + Cardinality(hit)]_vars

(* One tap has met two alive bugs. *)
C6_Witness ==
    /\ last.op = "tap"
    /\ isRunning(runMode)
    /\ last.aliveHits >= 2
    /\ Cardinality(BugsAt(gameObjects, last.tap, FALSE)) >= 2

(* C7: wave size.  A spawn cycle, fired by its timer or run by the start   *)
(* handler, appends between MIN_BUGS_TO_SPAWN and MAX_BUGS_TO_SPAWN alive  *)
(* bugs when the game is running and there is food, and nothing otherwise. *)
(* The food of the later controller is its _food list, the food of the     *)
(* earlier one the food its constructor put into the collection.           *)
C7_FoodPresent ==
    IF controller = BugTapTs THEN Len(_food) > 0
    ELSE \E i \in Indices(gameObjects) : gameObjects[i] = Food

C7_WaveOf(objs, objs2, mode, hasFood) ==
    LET n == Len(objs2) - Len(objs)
    IN  /\ n >= 0
        /\ SubSeq(objs2, 1, Len(objs)) = objs
        /\ \A i \in Len(objs) + 1 .. Len(objs2) :
              isBug(objs2[i]) /\ isAlive(objs2[i])
        /\ IF isRunning(mode) /\ hasFood
           THEN MIN_BUGS_TO_SPAWN <= n /\ n <= MAX_BUGS_TO_SPAWN
           ELSE n = 0

C7_WaveSizeBounds ==
    /\ [][last'.op = "spawn" =>
             C7_WaveOf(gameObjects, gameObjects', runMode,
                       C7_FoodPresent)]_vars
    /\ [][last'.op = "start" =>
             C7_WaveOf(addGameObjects(gameObjects, _food'), gameObjects',
                       runMode', Len(_food') > 0)]_vars

(* C8: a miss is a no-op.  A tap whose point lies in no bug's box leaves   *)
(* the score, the game objects with their alive flags, the cue count, the  *)
(* store and the score text unchanged.                                     *)
C8_MissIsNoOp ==
    [][(last'.op = "tap" /\ last'.aliveHits = 0 /\ last'.deadHits = 0) =>
          UNCHANGED tapFrame]_vars

(* A tap while running has missed every bug although one is alive. *)
C8_Witness ==
    /\ last.op = "tap"
    /\ isRunning(runMode)
    /\ last.aliveHits = 0
    /\ last.deadHits = 0
    /\ AliveBugs(gameObjects) # {}

(* C9: tap precondition.  A tap delivered while the game is not running    *)
(* changes nothing a tap may write, even with the point in an alive bug's  *)
(* box.                                                                    *)
C9_TapWhileNotRunning ==
    [][(~isRunning(runMode) /\ last'.op = "tap") => UNCHANGED tapFrame]_vars

(* A tap while paused has landed in an alive bug's box. *)
C9_Witness ==
    /\ last.op = "tap"
    /\ isPaused(runMode)
    /\ last.aliveHits > 0

(* C10: single loop pair.  At most one spawn loop and at most one time     *)
(* loop have a pending callback.  The start handler arms a new pair each   *)
(* time it runs, so a second click on the start button breaks this.        *)
C10_SingleLoopPair ==
    /\ spawnTimers <= 1
    /\ tickTimers <= 1

----------------------------------------------------------------------------
(* C11: start clears the persistent store.  Once the start handler has     *)
(* run, the store holds only what that run wrote: the "time" entry of its  *)
(* first tick when it ticked, and no entry from before the click.          *)
C11_StartClearsStore ==
    [][last'.op = "start" =>
          store' = TimeCycle(runMode', [time |-> _time, text |-> timeText,
                                        store |-> clearStore]).store]_vars

(* C12: run-mode state machine.  The run mode changes only from NotStarted *)
(* to Running by a start, from Running to Paused and from Paused to        *)
(* Running by a pause toggle; a toggle resumes exactly when the game is    *)
(* paused, pauses when it is running and does nothing before the start;    *)
(* while the mode is NotStarted nothing has taken effect (no bug, no time, *)
(* no score, no timer); the mode never returns to NotStarted, and in every *)
(* state some event changes the mode.                                      *)
C12_RunModeStateMachine ==
    /\ [][/\ runMode' # runMode =>
               \/ /\ runMode = "NotStarted" /\ runMode' = "Running"
                  /\ last'.op = "start"
               \/ /\ runMode = "Running" /\ runMode' = "Paused"
                  /\ last'.op = "toggle"
               \/ /\ runMode = "Paused" /\ runMode' = "Running"
                  /\ last'.op = "toggle"
          /\ last'.op = "toggle" =>
               runMode' = CASE runMode = "Paused" -> "Running"
                            [] runMode = "Running" -> "Paused"
                            [] OTHER -> "NotStarted"
          /\ (last'.op = "start" /\ runMode = "NotStarted") =>
               runMode' = "Running"
          /\ runMode # "NotStarted" => runMode' # "NotStarted"]_vars
    /\ [](runMode = "NotStarted" =>
            /\ NumBugs(gameObjects) = 0 /\ _time = 0 /\ _score = 0
            /\ DOMAIN store = {} /\ spawnTimers = 0 /\ tickTimers = 0)
    /\ [](ENABLED (Next /\ runMode' # runMode))

(* A pause toggle has been delivered before the start. *)
C12_Witness ==
    /\ runMode = "NotStarted"
    /\ last.op = "toggle"

(* C13: food hand-off ordering.  BugManager.receiveFood has been called at *)
(* most once; and once a bug has been spawned it has been called, with the *)
(* list FoodManager.generate returned.                                     *)
C13_FoodHandOffOnce ==
    /\ Len(foodReceived) <= 1
    /\ NumBugs(gameObjects) > 0 =>
          /\ Len(foodReceived) >= 1
          /\ foodReceived[1] = generate(AMOUNT_OF_FOOD)

(* C14: time display.  The first tick runs inside the start handler and    *)
(* adds 1 to the elapsed seconds, which start at 0; every later tick that  *)
(* fires while not paused adds exactly 1 and a tick that fires while       *)
(* paused adds nothing; so after n unpaused ticks the elapsed seconds are  *)
(* n.                                                                      *)
(* The time text is then "Time: m:ss" with m = n div 60 and ss = n mod 60  *)
(* written with two digits (65 seconds read 1:05), and the stored "time"   *)
(* is n in decimal.                                                        *)
C14_TwoDigits(n) == Digit(n \div 10) \o Digit(n % 10)

C14_Display(n) ==
    "Time: " \o toString(n \div 60) \o ":" \o C14_TwoDigits(n % 60)

C14_TimeDisplay ==
    /\ [][/\ (last'.op = "start" /\ ~isPaused(runMode')) => _time' = _time + 1
          /\ (last'.op = "tick" /\ ~isPaused(runMode)) => _time' = _time + 1
          /\ (last'.op = "tick" /\ isPaused(runMode)) => _time' = _time]_vars
    /\ [](Started =>
            /\ timeText = C14_Display(_time)
            /\ store["time"] = toString(_time))
    /\ [](_time = 5 => timeText = "Time: 0:05" /\ store["time"] = "5")
    /\ [](_time = 10 => timeText = "Time: 0:10" /\ store["time"] = "10")
    /\ [](_time = 59 => timeText = "Time: 0:59" /\ store["time"] = "59")
    /\ [](_time = 60 => timeText = "Time: 1:00" /\ store["time"] = "60")
    /\ [](_time = 65 => timeText = "Time: 1:05" /\ store["time"] = "65")

(* The tick that made 65 seconds has fired. *)
C14_Witness ==
    /\ _time = 65
    /\ last.op = "tick"
    /\ isRunning(runMode)

(* C15: single-writer frame, as amended.  The score and the alive flags   *)
(* change only in a tap; the elapsed seconds change only where a time tick *)
(* runs, which is a timer-fired tick or the first tick that the start      *)
(* handler runs before it returns, and then by exactly +1; spawn cycles    *)
(* and pause toggles leave score, time and the existing bugs' alive flags  *)
(* unchanged; the start handler leaves score and existing flags unchanged  *)
(* and raises the time by exactly 1 (by 0 when the game is paused after    *)
(* it); a tap leaves the time unchanged; a tick leaves score, flags and    *)
(* the collection unchanged; no step removes or moves an object, and no    *)
(* alive flag goes from false to true.                                     *)
C15_FlagsKept ==
    /\ Len(gameObjects') >= Len(gameObjects)
    /\ \A i \in Indices(gameObjects) :
          /\ isBug(gameObjects'[i]) = isBug(gameObjects[i])
          /\ isBug(gameObjects[i]) =>
                isAlive(gameObjects'[i]) = isAlive(gameObjects[i])

C15_NeverRevived ==
    /\ Len(gameObjects') >= Len(gameObjects)
    /\ \A i \in Indices(gameObjects) :
          /\ isBug(gameObjects'[i]) = isBug(gameObjects[i])
          /\ (isBug(gameObjects[i]) /\ ~isAlive(gameObjects[i])) =>
                ~isAlive(gameObjects'[i])

C15_SingleWriterFrame ==
    [][/\ _score' # _score => last'.op = "tap"
       /\ ~C15_FlagsKept => last'.op = "tap"
       /\ C15_NeverRevived
       /\ _time' # _time =>
             /\ last'.op \in {"tick", "start"}
             /\ _time' = _time + 1
       /\ last'.op \in {"spawn", "toggle"} =>
             _score' = _score /\ _time' = _time /\ C15_FlagsKept
       /\ last'.op = "start" =>
             /\ _score' = _score /\ C15_FlagsKept
             /\ _time' = IF isPaused(runMode') THEN _time ELSE _time + 1
       /\ last'.op = "tap" => _time' = _time
       /\ last'.op = "tick" =>
             _score' = _score /\ gameObjects' = gameObjects]_vars

(* C15 as stated: the elapsed seconds change only in a time tick fired by  *)
(* its timer, and spawn cycles, pause toggles and the start handler all    *)
(* leave score, elapsed seconds and existing alive flags unchanged.  The   *)
(* start handler runs the first tick itself (BugTap.ts 93, 212, 205), so   *)
(* the first start click takes the time from 0 to 1.                       *)
C15_StartLeavesTime ==
    [][/\ _score' # _score => last'.op = "tap"
       /\ ~C15_FlagsKept => last'.op = "tap"
       /\ C15_NeverRevived
       /\ _time' # _time =>
             /\ last'.op = "tick"
             /\ _time' = _time + 1
       /\ last'.op \in {"spawn", "toggle", "start"} =>
             _score' = _score /\ _time' = _time /\ C15_FlagsKept
       /\ last'.op = "tap" => _time' = _time
       /\ last'.op = "tick" =>
             _score' = _score /\ gameObjects' = gameObjects]_vars

(* The start handler has run with a score and a dead bug standing and has  *)
(* counted its first tick, next to an alive bug.                           *)
C15_Witness ==
    /\ last.op = "start"
    /\ isRunning(runMode)
    /\ DeadBugs(gameObjects) # {}
    /\ AliveBugs(gameObjects) # {}
    /\ _score > 0
    /\ _time > 0

(* C16: self-rescheduling loops.  Every spawn cycle fired by its timer,    *)
(* spawning or not, leaves as many spawn timers pending as before (the one *)
(* that fired is replaced by exactly one) with a delay drawn from          *)
(* MIN_SPAWN_INTERVAL .. MAX_SPAWN_INTERVAL; every tick, paused or not,    *)
(* leaves as many tick timers pending as before with a delay of 1000 ms;   *)
(* the first cycles run by the start handler arm one timer each; a pause   *)
(* toggle or a tap changes no timer; a loop that has a pending timer keeps *)
(* one for good, which holds of both loops once the start handler has run  *)
(* and of the earlier controller's spawn loop from construction on.        *)
C16_SelfRescheduling ==
    /\ [][/\ last'.op = "spawn" =>
               /\ spawnTimers >= 1 /\ spawnTimers' = spawnTimers
               /\ tickTimers' = tickTimers
               /\ last'.delay \in MIN_SPAWN_INTERVAL .. MAX_SPAWN_INTERVAL
          /\ last'.op = "tick" =>
               /\ tickTimers >= 1 /\ tickTimers' = tickTimers
               /\ spawnTimers' = spawnTimers
               /\ last'.delay = 1000
          /\ last'.op = "start" =>
               /\ spawnTimers' = spawnTimers + 1
               /\ tickTimers' = tickTimers + 1
               /\ last'.delay \in MIN_SPAWN_INTERVAL .. MAX_SPAWN_INTERVAL
          /\ last'.op \in {"toggle", "tap"} =>
               spawnTimers' = spawnTimers /\ tickTimers' = tickTimers]_vars
    /\ [][/\ spawnTimers >= 1 => spawnTimers' >= 1
          /\ tickTimers >= 1 => tickTimers' >= 1]_vars
    /\ []((controller = BugTapTs /\ Started) =>
             spawnTimers >= 1 /\ tickTimers >= 1)
    /\ [](controller = BugTapPart000 => spawnTimers >= 1)

(* A spawn cycle has fired while paused, spawned nothing and re-armed     *)
(* itself with the longest delay.                                          *)
C16_Witness ==
    /\ last.op = "spawn"
    /\ isPaused(runMode)
    /\ last.delay = MAX_SPAWN_INTERVAL
    /\ spawnTimers >= 1

(* C17: per-scoring side effects and append-only collection.  A tap that   *)
(* scores k bugs plays the cue k times and appends k score markers, each   *)
(* with the points and the corner of a bug it scored; the objects that     *)
(* were in the collection keep their places and change in nothing but the  *)
(* alive flag.  In every state the cues played, the score markers and the  *)
(* dead bugs are equally many, all of them in the collection.              *)
Markers(objs) == {i \in Indices(objs) : objs[i].kind = "Point"}

C17_Died == {i \in Indices(gameObjects) :
                /\ isBug(gameObjects[i]) /\ isAlive(gameObjects[i])
                /\ ~isAlive(gameObjects'[i])}

C17_AppendOnly ==
    /\ [][last'.op = "tap" =>
             LET k == Cardinality(C17_Died)
                 old == Len(gameObjects)
             IN  /\ cues' = cues + k
                 /\ Len(gameObjects') = old + k
                 /\ \A i \in 1 .. old :
                       IF i \in C17_Died
                       THEN gameObjects'[i] =
                               [setDead(gameObjects[i]) EXCEPT !.scored = 1]
                       ELSE gameObjects'[i] = gameObjects[i]
                 /\ \A j \in old + 1 .. old + k :
                       \E i \in C17_Died :
                          gameObjects'[j] = Point(gameObjects[i].points,
                                                  gameObjects[i].x,
                                                  gameObjects[i].y)
                 /\ isRunning(runMode) => k = last'.aliveHits]_vars
    /\ []/\ cues = Cardinality(Markers(gameObjects))
          /\ cues = Cardinality(DeadBugs(gameObjects))

(* One tap has scored two bugs: two cues, two markers behind the bugs.     *)
C17_Witness ==
    /\ last.op = "tap"
    /\ last.aliveHits = 2
    /\ cues = 2
    /\ Cardinality(Markers(gameObjects)) = 2
    /\ gameObjects[Len(gameObjects)].kind = "Point"

(* C18: persisted state tracks live state.  The store has no key but       *)
(* "score" and "time"; a stored "score" is the decimal of the score and a  *)
(* stored "time" the decimal of the elapsed seconds; the "score" entry is  *)
(* there as soon as a bug was scored and the "time" entry as soon as a     *)
(* tick counted.                                                           *)
C18_StoreTracksState ==
    /\ DOMAIN store \subseteq {"score", "time"}
    /\ "score" \in DOMAIN store => store["score"] = toString(_score)
    /\ "time" \in DOMAIN store => store["time"] = toString(_time)
    /\ _score > 0 => "score" \in DOMAIN store
    /\ _time > 0 => "time" \in DOMAIN store

(* Both entries are stored and both values have been written twice.        *)
C18_Witness ==
    /\ DOMAIN store = {"score", "time"}
    /\ cues = 2
    /\ _time = 2
    /\ store["score"] = "4"
    /\ store["time"] = "2"

(* C19: the tap scan terminates although it appends to the collection it   *)
(* walks.  The bugs one tap scores are at most the bugs alive when it      *)
(* began, each scored once and dead afterwards; what the scan appended are *)
(* score markers, as many as bugs were scored, and none of them, nor any   *)
(* marker of an earlier tap, was scored.  In every state the scan of every *)
(* tap ends, having lengthened the collection by one marker per bug it     *)
(* scored and by no more than the bugs then alive.                         *)
C19_ScanTerminates ==
    /\ [][last'.op = "tap" =>
             LET k == cues' - cues
                 old == Len(gameObjects)
                 died == {i \in AliveBugs(gameObjects) :
                             ~isAlive(gameObjects'[i])}
             IN  /\ k <= Cardinality(AliveBugs(gameObjects))
                 /\ k = Cardinality(died)
                 /\ \A i \in died : gameObjects'[i].scored = 1
                 /\ Len(gameObjects') = old + k
                 /\ Markers(gameObjects') =
                       Markers(gameObjects) \cup (old + 1 .. old + k)
                 /\ \A j \in Markers(gameObjects) :
                       gameObjects'[j] = gameObjects[j]
                 /\ \A j \in old + 1 .. old + k :
                       DOMAIN gameObjects'[j] = {"kind", "x", "y", "points"}
          ]_vars
    /\ [](\A tap \in Taps :
            LET st == TapResult(runMode,
                                [objs |-> gameObjects, score |-> _score,
                                 cues |-> cues, scoreText |-> scoreText,
                                 store |-> store], tap[1], tap[2])
            IN  /\ Len(st.objs) - Len(gameObjects) = st.cues - cues
                /\ st.cues - cues <= Cardinality(AliveBugs(gameObjects)))

(* A tap has scored an alive bug at a point where an earlier tap had left  *)
(* a dead bug and its marker.                                              *)
C19_Witness ==
    /\ last.op = "tap"
    /\ isRunning(runMode)
    /\ last.aliveHits = 1
    /\ last.deadHits = 1
    /\ Cardinality(Markers(gameObjects)) = 2

(* C20: start runs the first cycles synchronously and in order.  The first *)
(* start click leaves, in one step, the game running, the generated food   *)
(* handed to the bug manager and placed in the collection behind what was  *)
(* there, between 1 and 3 alive bugs behind the food (so the first spawn   *)
(* cycle ran after the host start and the food generation), 1 elapsed      *)
(* second shown and stored as "1" (the first tick), and one pending timer  *)
(* of each loop, neither of which has fired yet.                           *)
C20_StartRunsFirstCycles ==
    [][(runMode = "NotStarted" /\ last'.op = "start") =>
          LET withFood == addGameObjects(gameObjects, _food')
              n == Len(gameObjects') - Len(withFood)
          IN  /\ runMode' = "Running"
              /\ _food' = generate(AMOUNT_OF_FOOD)
              /\ foodReceived' = <<_food'>>
              /\ SubSeq(gameObjects', 1, Len(withFood)) = withFood
              /\ 1 <= n /\ n <= 3
              /\ NumBugs(gameObjects') = n
              /\ \A i \in Len(withFood) + 1 .. Len(gameObjects') :
                    isBug(gameObjects'[i]) /\ isAlive(gameObjects'[i])
              /\ _time' = 1
              /\ timeText' = "Time: 0:01"
              /\ store' = [time |-> "1"]
              /\ spawnTimers' = 1 /\ tickTimers' = 1
              /\ sections' = [welcome |-> "hidden", game |-> "shown"]]_vars

(* The state right after the first start click, with a first wave of two.  *)
C20_Witness ==
    /\ last.op = "start"
    /\ spawnTimers = 1
    /\ tickTimers = 1
    /\ NumBugs(gameObjects) = 2
    /\ AliveBugs(gameObjects) = {Len(gameObjects) - 1, Len(gameObjects)}
    /\ _time = 1
====
